---- MODULE Spec2Model ----
(***************************************************************************)
(* pipx "run": the ephemeral virtual-environment cache of                  *)
(* src/pipx/commands/run.py.                                               *)
(*                                                                         *)
(* Strings are TLA+ strings, joined with \o.  A script is a sequence of    *)
(* lines and a line is a sequence of tokens (each a short string), so that *)
(* startswith("#"), strip() and the requirement normalisation act on the   *)
(* tokens.  Time is counted in ticks, TicksPerSec of them to the second,   *)
(* so that a creation time (st_ctime, a float) can lie between two whole   *)
(* seconds while the current time the code uses is cut to a whole second.  *)
(***************************************************************************)
EXTENDS Integers, Sequences, FiniteSets, TLC

\* ------------------------------------------------------------------ bounds

\* Clock resolution of the model: ticks per second.
TicksPerSec == 2

\* The clock runs over the ticks 0..MaxSkew and Threshold..Threshold+MaxSkew.
MaxSkew == 2

\* ------------------------------------------------------- program constants

\* pipx.constants.TEMP_VENV_EXPIRATION_THRESHOLD_DAYS, imported at line 20.
TEMP_VENV_EXPIRATION_THRESHOLD_DAYS == 14

\* Python's None.
None == "None"

\* The interpreter-relative launch places that are not a cache directory.
Ambient == "ambient"

\* ------------------------------------------------------------ text helpers

RECURSIVE Join(_)
\* "".join(strs)
Join(strs) == IF strs = <<>> THEN "" ELSE Head(strs) \o Join(Tail(strs))

\* line.startswith("#")
StartsWithHash(line) == Len(line) > 0 /\ line[1] = "#"

RECURSIVE LStrip(_)
LStrip(toks) ==
    IF toks # <<>> /\ Head(toks) = " " THEN LStrip(Tail(toks)) ELSE toks

RECURSIVE RStrip(_)
RStrip(toks) ==
    IF toks # <<>> /\ toks[Len(toks)] = " "
    THEN RStrip(SubSeq(toks, 1, Len(toks) - 1))
    ELSE toks

\* line[1:].strip()
LineContent(line) == RStrip(LStrip(Tail(line)))

\* The tokens a requirement line is made of: project names, version
\* specifiers, blanks, and a character no requirement may hold.
NameTokens == {"a", "b"}
SpecifierTokens == {">=1"}

NonBlank(toks) == SelectSeq(toks, LAMBDA t : t # " ")

\* packaging.requirements.Requirement(line_content) parses: a name, then
\* optionally a version specifier, blanks allowed between the two.
ValidRequirement(toks) ==
    LET nb == NonBlank(toks) IN
    /\ Len(nb) \in {1, 2}
    /\ nb[1] \in NameTokens
    /\ Len(nb) = 2 => nb[2] \in SpecifierTokens
    /\ toks # <<>> /\ toks[1] # " " /\ toks[Len(toks)] # " "

\* str(Requirement(line_content)): the canonical text, blanks dropped.
NormalisedRequirement(toks) == Join(NonBlank(toks))

\* ---------------------------------------------- _get_requirements_from_script

\* What _get_requirements_from_script gives: None, a list, or PipxError.
ReqNone == [tag |-> "none", reqs |-> <<>>, bad |-> <<>>]
ReqList(reqs) == [tag |-> "list", reqs |-> reqs, bad |-> <<>>]
ReqInvalid(toks) == [tag |-> "error", reqs |-> <<>>, bad |-> toks]

\* A comment line whose stripped content is "Requirements:".
IsHeaderLine(line) ==
    StartsWithHash(line) /\ LineContent(line) = <<"Requirements:">>

\* The first loop: the index of the first header line, 0 when there is none.
HeaderIndex(lines) ==
    IF \E i \in 1..Len(lines) : IsHeaderLine(lines[i])
    THEN CHOOSE i \in 1..Len(lines) :
            /\ IsHeaderLine(lines[i])
            /\ \A j \in 1..(i - 1) : ~IsHeaderLine(lines[j])
    ELSE 0

RECURSIVE CollectRequirements(_, _, _)
\* The second loop, from line i on, with the requirements gathered so far.
CollectRequirements(lines, i, requirements) ==
    IF i > Len(lines) THEN ReqList(requirements)
    ELSE IF ~StartsWithHash(lines[i]) THEN ReqList(requirements)
    ELSE IF LineContent(lines[i]) = <<>> THEN ReqList(requirements)
    ELSE IF ~ValidRequirement(LineContent(lines[i]))
         THEN ReqInvalid(LineContent(lines[i]))
    ELSE CollectRequirements(lines, i + 1,
            Append(requirements, NormalisedRequirement(LineContent(lines[i]))))

\* Mutant: an empty list, not None, when there is no header line.
_get_requirements_from_script_empty(content) ==
    IF HeaderIndex(content) = 0
    THEN ReqList(<<>>)
    ELSE CollectRequirements(content, HeaderIndex(content) + 1, <<>>)

_get_requirements_from_script(content) ==
    IF HeaderIndex(content) = 0
    THEN ReqNone
    ELSE CollectRequirements(content, HeaderIndex(content) + 1, <<>>)

\* ------------------------------------------------- _get_temporary_venv_path

\* hashlib.sha256 over the bytes fed to it, cut to 15 hex digits: taken as
\* injective on the bytes, and written as the bytes under a "sha:" prefix.
hexdigest15(bytes) == "sha:" \o bytes

\* Mutant: the four components are fed to the digest with a separator.
_get_temporary_venv_path_separated(requirements, python, pip_args, venv_args) ==
    hexdigest15(Join(requirements) \o "|" \o python \o "|" \o Join(pip_args)
                \o "|" \o Join(venv_args))

_get_temporary_venv_path(requirements, python, pip_args, venv_args) ==
    hexdigest15(Join(requirements) \o python \o Join(pip_args) \o Join(venv_args))

\* ------------------------------------------------------------ the cache

\* The inputs of a run that fix its environment and its target, and the
\* arguments for the application.
CallOf(kind, content, package_or_url, app_args, python, pip_args, venv_args) ==
    [kind |-> kind, content |-> content, package_or_url |-> package_or_url,
     app_args |-> app_args, python |-> python, pip_args |-> pip_args,
     venv_args |-> venv_args]

NoCall == CallOf("none", <<>>, None, <<>>, None, <<>>, <<>>)

\* A cache directory that does not exist; "by" remembers the run that made
\* a directory.
Absent ==
    [exists |-> FALSE, ctime |-> 0, expired_file |-> FALSE, installed |-> FALSE,
     package |-> None, apps |-> <<>>, by |-> NoCall]

\* shutil-style removal of the whole directory (pipx.util.rmdir).
rmdir(c, venv_dir) == [c EXCEPT ![venv_dir] = Absent]

\* 60 * 60 * 24 * TEMP_VENV_EXPIRATION_THRESHOLD_DAYS seconds, in ticks.
expiration_threshold == 60 * 60 * 24 * TEMP_VENV_EXPIRATION_THRESHOLD_DAYS * TicksPerSec

\* time.mktime(datetime.datetime.now().timetuple()): timetuple() has no
\* sub-second field, so the current time is cut to a whole second.
current_time(clock) == (clock \div TicksPerSec) * TicksPerSec

\* Mutant: the comparison is not strict.
AgeExpiredAtThreshold(age) == age >= expiration_threshold

\* age > expiration_threshold_sec
AgeExpired(age) == age > expiration_threshold

_is_temporary_venv_expired(entry, clock) ==
    AgeExpired(current_time(clock) - entry.ctime) \/ entry.expired_file

\* for venv_dir in Path(PIPX_VENV_CACHEDIR).iterdir(): rmdir the expired ones
_remove_all_expired_venvs(c, clock) ==
    [d \in DOMAIN c |->
        IF c[d].exists /\ _is_temporary_venv_expired(c[d], clock)
        THEN Absent ELSE c[d]]

\* Mutant: the directory of the run is never removed up front.
TargetedRemovalNever(use_cache, bin_path_is_none, bin_path_exists) == FALSE

\* not use_cache and (bin_path is None or bin_path.exists())
TargetedRemoval(use_cache, bin_path_is_none, bin_path_exists) ==
    ~use_cache /\ (bin_path_is_none \/ bin_path_exists)

_prepare_venv_cache(c, venv_dir, bin_path_is_none, bin_path_exists, use_cache, clock) ==
    _remove_all_expired_venvs(
        IF TargetedRemoval(use_cache, bin_path_is_none, bin_path_exists)
        THEN rmdir(c, venv_dir) ELSE c,
        clock)

\* Venv.has_app(app, app_filename): the app's binary is in the environment.
has_app(entry, app) ==
    entry.exists /\ entry.installed /\ \E i \in 1..Len(entry.apps) : entry.apps[i] = app

\* (venv.bin_path / app_filename).exists()
bin_path_exists(entry, app) == has_app(entry, app)

\* Venv.create_venv: makes the directory when it is not there yet.
create_venv(entry, clock, builder) ==
    IF entry.exists THEN entry
    ELSE [Absent EXCEPT !.exists = TRUE, !.ctime = clock, !.by = builder]

\* Venv.install_unmanaged_packages(requirements, pip_args)
install_unmanaged_packages(entry) == [entry EXCEPT !.installed = TRUE]

\* Venv.install_package(...): records the main package and its apps.
install_package(entry, package_name, apps) ==
    [entry EXCEPT !.installed = TRUE, !.package = package_name, !.apps = apps]

\* (venv_dir / VENV_EXPIRED_FILENAME).touch()
touch_expired(entry) == [entry EXCEPT !.expired_file = TRUE]

\* ------------------------------------------------------------- the inputs

\* The invocations: one process runs them one after the other (Spec).
Procs == {1}

\* Script contents, as lines of tokens.  The two scripts with a header have
\* different bodies and differently spaced headers.
ScriptPlain == << <<"x">> >>
ScriptA == << <<"#", " ", "Requirements:">>, <<"#", " ", "a", ">=1">>, <<"x">> >>
ScriptB ==
    << <<"y">>, <<"#", "Requirements:", " ">>, <<"#", " ", " ", "a", " ", ">=1", " ">>,
       <<"#">>, <<"y">> >>
ScriptBad == << <<"#", "Requirements:">>, <<"#", " ", "a", " ", "b">> >>
Scripts == {ScriptPlain, ScriptA, ScriptB, ScriptBad}

Pythons == {"py"}
PipArgs == {<<>>}
VenvArgs == {<<>>}
AppArgs == {<<>>, <<"-v">>}

\* Package runs: the install source, the requested app names, and what the
\* provisioner may report as the apps of the installed package.
PackageSpecs == {"a"}
AppNames == {"a", "x"}
AppLists == {<<>>, <<"a">>, <<"cli">>, <<"cli", "x">>}

\* pipx.commands.common.package_name_from_spec, for a plain project name.
package_name_from_spec(package_or_url) == package_or_url

\* Mutant: the application's arguments take part in the directory name.
run_script_venv_dir_app_args(content, app_args, python, pip_args, venv_args) ==
    _get_temporary_venv_path(_get_requirements_from_script(content).reqs \o app_args,
                             python, pip_args, venv_args)

\* Mutant: the directory is named after the script text, not after the
\* requirements identified in it.
run_script_venv_dir_by_text(content, app_args, python, pip_args, venv_args) ==
    _get_temporary_venv_path([i \in 1..Len(content) |-> Join(content[i])],
                             python, pip_args, venv_args)

\* run_script, lines 80 and 91: the directory of a script run, from the
\* requirements identified in the script.
run_script_venv_dir(content, app_args, python, pip_args, venv_args) ==
    _get_temporary_venv_path(_get_requirements_from_script(content).reqs,
                             python, pip_args, venv_args)

\* run_package, line 146: the directory of a package run.
run_package_venv_dir(package_or_url, app_args, python, pip_args, venv_args) ==
    _get_temporary_venv_path(<<package_or_url>>, python, pip_args, venv_args)

\* Every directory name a run of the inputs above can compute.
CacheDirs ==
    { run_script_venv_dir(s, aa, py, pa, va) :
        s \in {t \in Scripts : _get_requirements_from_script(t).tag = "list"},
        aa \in AppArgs, py \in Pythons, pa \in PipArgs, va \in VenvArgs }
    \cup
    { run_package_venv_dir(pkg, aa, py, pa, va) :
        pkg \in PackageSpecs, aa \in AppArgs, py \in Pythons, pa \in PipArgs,
        va \in VenvArgs }

\* The clock values of the model: up to MaxSkew ticks after time 0, and up
\* to MaxSkew ticks after one expiration threshold has passed.
ClockValues ==
    (0..MaxSkew) \cup (expiration_threshold..(expiration_threshold + MaxSkew))

\* --------------------------------------------------------------- the state

VARIABLES
    cache,  \* PIPX_VENV_CACHEDIR: directory name -> entry
    clock,  \* the wall clock, in ticks
    inv,    \* per process: the invocation it is running
    fp,     \* two calls of _get_temporary_venv_path and their results (SpecFP)
    version_check, \* the marker file under PIPX_LOCAL_VENVS (SpecRun)
    runs    \* the call of run() or of maybe_script_content under way

vars == <<cache, clock, inv, fp, version_check, runs>>

NoError == [kind |-> "none", app |-> None, package_name |-> None, app_lines |-> <<>>]

\* A process that runs nothing.
Idle ==
    [pc |-> "idle", kind |-> "none", content |-> <<>>, requirements |-> <<>>,
     app |-> None, package_or_url |-> None, app_args |-> <<>>, python |-> None,
     pip_args |-> <<>>, venv_args |-> <<>>, use_cache |-> TRUE, venv_dir |-> None,
     pre |-> None, calls |-> <<>>, reused |-> FALSE, package_name |-> None,
     apps |-> <<>>, target |-> None, from |-> None, err |-> NoError,
     pypackages |-> FALSE, pypackage_bin |-> FALSE]

\* The arguments of one call of _get_temporary_venv_path.
FpArgs(requirements, python, pip_args, venv_args) ==
    [requirements |-> requirements, python |-> python, pip_args |-> pip_args,
     venv_args |-> venv_args]

\* No call of _get_temporary_venv_path is under study.
NoFp ==
    [a |-> FpArgs(<<>>, "", <<>>, <<>>), b |-> FpArgs(<<>>, "", <<>>, <<>>),
     path_a |-> None, path_b |-> None, done |-> FALSE]

\* PIPX_LOCAL_VENVS / "{app}" / "pipx_version_check" is not there.
NoMarker == [exists |-> FALSE, ctime |-> 0]

\* No call of run() or of maybe_script_content is under way.
NotRunning ==
    [pc |-> "idle", op |-> "none", app |-> <<>>, spec |-> None, is_path |-> FALSE,
     path_exists |-> FALSE, seen |-> None, queried |-> FALSE, latest_version |-> None, upgraded |-> FALSE,
     content |-> <<>>, read_file |-> FALSE, fetched |-> FALSE,
     requirements |-> <<>>, package_name |-> None, package_or_url |-> None,
     venv_dir |-> None, err |-> None]

Init ==
    /\ cache = [d \in CacheDirs |-> Absent]
    /\ clock \in 0..(TicksPerSec - 1)
    /\ inv = [p \in Procs |-> Idle]
    /\ fp = NoFp
    /\ version_check = NoMarker
    /\ runs = NotRunning

\* The state of a cache entry in the terms of the lifecycle: ABSENT, READY
\* (no marker, age not above the threshold) or EXPIRED (marker, or age above
\* the threshold), the age being the clock minus the creation time.
LifecycleState(entry, now) ==
    IF ~entry.exists THEN "absent"
    ELSE IF entry.expired_file \/ now - entry.ctime > expiration_threshold
         THEN "expired"
    ELSE "ready"

\* ------------------------------------------------------------- run_script

\* Mutant: an empty requirement list is taken for None ("if not requirements").
RunsAmbientWhenEmpty(requirements) ==
    requirements.tag = "none" \/ requirements.reqs = <<>>

\* if requirements is None: exec_app([python, "-c", content, *app_args])
RunsAmbient(requirements) == requirements.tag = "none"

\* run_script up to its call of _prepare_venv_cache (lines 80-92).
RunScript(p) ==
    /\ inv[p].pc = "idle"
    /\ \E content \in Scripts, app_args \in AppArgs, python \in Pythons,
          pip_args \in PipArgs, venv_args \in VenvArgs, use_cache \in BOOLEAN :
        LET requirements == _get_requirements_from_script(content)
            call == [Idle EXCEPT !.kind = "script", !.content = content,
                        !.app_args = app_args, !.python = python,
                        !.pip_args = pip_args, !.venv_args = venv_args,
                        !.use_cache = use_cache]
        IN  inv' = [inv EXCEPT ![p] =
                IF requirements.tag = "error"
                THEN [call EXCEPT !.pc = "error",
                        !.err = [NoError EXCEPT !.kind = "invalid_requirement"]]
                ELSE IF RunsAmbient(requirements)
                THEN [call EXCEPT !.pc = "launched", !.from = Ambient]
                ELSE [call EXCEPT !.pc = "prepare",
                        !.requirements = requirements.reqs,
                        !.venv_dir = run_script_venv_dir(content,
                                        app_args, python, pip_args, venv_args)]]
    /\ UNCHANGED <<cache, clock, fp, version_check, runs>>

\* ------------------------------------------------------------ run_package

\* Mutant: the project-local binary is looked for only with the flag.
PypackageRouteByFlag(pypackage_bin_exists, pypackages) ==
    IF pypackages
    THEN IF pypackage_bin_exists THEN "run_pypackage_bin" ELSE "error"
    ELSE "cache"

\* run_package, lines 130-144: the project-local binary is run when it is
\* there; the flag without it is an error; the cache comes after both.
PypackageRoute(pypackage_bin_exists, pypackages) ==
    IF pypackage_bin_exists THEN "run_pypackage_bin"
    ELSE IF pypackages THEN "error"
    ELSE "cache"

\* run_package up to its call of _prepare_venv_cache (lines 114-149).
RunPackage(p) ==
    /\ inv[p].pc = "idle"
    /\ \E app \in AppNames, package_or_url \in PackageSpecs, app_args \in AppArgs,
          python \in Pythons, pip_args \in PipArgs, venv_args \in VenvArgs,
          use_cache \in BOOLEAN, pypackages \in BOOLEAN,
          pypackage_bin_exists \in BOOLEAN :
        LET call == [Idle EXCEPT !.kind = "package", !.app = app,
                        !.package_or_url = package_or_url, !.app_args = app_args,
                        !.python = python, !.pip_args = pip_args,
                        !.venv_args = venv_args, !.use_cache = use_cache,
                        !.pypackages = pypackages,
                        !.pypackage_bin = pypackage_bin_exists]
            route == PypackageRoute(pypackage_bin_exists, pypackages)
        IN  inv' = [inv EXCEPT ![p] =
                IF route = "run_pypackage_bin"
                THEN [call EXCEPT !.pc = "launched", !.from = "__pypackages__"]
                ELSE IF route = "error"
                THEN [call EXCEPT !.pc = "error",
                        !.err = [NoError EXCEPT !.kind = "pypackages_not_found"]]
                ELSE [call EXCEPT !.pc = "prepare",
                        !.requirements = <<package_or_url>>,
                        !.venv_dir = run_package_venv_dir(package_or_url,
                                        app_args, python, pip_args, venv_args)]]
    /\ UNCHANGED <<cache, clock, fp, version_check, runs>>

\* ------------------------------------------------------- the cache steps

\* _prepare_venv_cache(venv, None, use_cache) of run_script and
\* _prepare_venv_cache(venv, bin_path, use_cache) of run_package.
PrepareVenvCache(p) ==
    /\ inv[p].pc = "prepare"
    /\ cache' = _prepare_venv_cache(cache, inv[p].venv_dir,
                    inv[p].kind = "script",
                    inv[p].kind = "package"
                        /\ bin_path_exists(cache[inv[p].venv_dir], inv[p].app),
                    inv[p].use_cache, clock)
    /\ inv' = [inv EXCEPT ![p].pc = "lookup",
                          ![p].pre = LifecycleState(cache[inv[p].venv_dir], clock)]
    /\ UNCHANGED <<clock, fp, version_check, runs>>

\* if venv_dir.exists() (run_script); if venv.has_app(app, app_filename)
\* (run_package)
Reusable(kind, entry, app) ==
    IF kind = "script" THEN entry.exists ELSE has_app(entry, app)

Lookup(p) ==
    /\ inv[p].pc = "lookup"
    /\ inv' = [inv EXCEPT ![p] =
            IF Reusable(inv[p].kind, cache[inv[p].venv_dir], inv[p].app)
            THEN [@ EXCEPT !.pc = "exec", !.reused = TRUE, !.target = inv[p].app]
            ELSE [@ EXCEPT !.pc = "create"]]
    /\ UNCHANGED <<cache, clock, fp, version_check, runs>>

\* venv.create_venv(venv_args, pip_args), lines 98 and 287.
CreateVenv(p) ==
    /\ inv[p].pc = "create"
    /\ cache' = [cache EXCEPT ![inv[p].venv_dir] =
                    create_venv(@, clock,
                        CallOf(inv[p].kind, inv[p].content, inv[p].package_or_url,
                               inv[p].app_args, inv[p].python, inv[p].pip_args,
                               inv[p].venv_args))]
    /\ inv' = [inv EXCEPT ![p].pc = "install",
                          ![p].calls = Append(@, "create_venv")]
    /\ UNCHANGED <<clock, fp, version_check, runs>>

\* venv.install_unmanaged_packages(requirements, pip_args), line 99; the
\* provisioner may fail, and the error ends the invocation; it fails when
\* the directory is no longer there.
InstallUnmanaged(p) ==
    /\ inv[p].pc = "install"
    /\ inv[p].kind = "script"
    /\ \E ok \in BOOLEAN :
        IF ok
        THEN /\ cache[inv[p].venv_dir].exists
             /\ cache' = [cache EXCEPT ![inv[p].venv_dir] =
                            install_unmanaged_packages(@)]
             /\ inv' = [inv EXCEPT ![p].pc = "exec",
                          ![p].calls = Append(@, "install_unmanaged_packages")]
        ELSE /\ cache' = cache
             /\ inv' = [inv EXCEPT ![p].pc = "error",
                          ![p].calls = Append(@, "install_unmanaged_packages"),
                          ![p].err = [NoError EXCEPT !.kind = "provisioning"]]
    /\ UNCHANGED <<clock, fp, version_check, runs>>

\* _download_and_run, lines 289-303: the package name, then install_package.
InstallPackage(p) ==
    /\ inv[p].pc = "install"
    /\ inv[p].kind = "package"
    /\ LET entry == cache[inv[p].venv_dir]
           package_name ==
                IF entry.package # None THEN entry.package
                ELSE package_name_from_spec(inv[p].package_or_url)
       IN \E ok \in BOOLEAN, apps \in AppLists :
            IF ok
            THEN /\ entry.exists
                 /\ cache' = [cache EXCEPT ![inv[p].venv_dir] =
                                install_package(@, package_name, apps)]
                 /\ inv' = [inv EXCEPT ![p].pc = "resolve",
                              ![p].package_name = package_name,
                              ![p].calls = Append(@, "install_package")]
            ELSE /\ apps = <<>>
                 /\ cache' = cache
                 /\ inv' = [inv EXCEPT ![p].pc = "error",
                              ![p].package_name = package_name,
                              ![p].calls = Append(@, "install_package"),
                              ![p].err = [NoError EXCEPT !.kind = "provisioning"]]
    /\ UNCHANGED <<clock, fp, version_check, runs>>

\* Mutant: the single app is taken whatever name was requested.
SingleAppAlways(app, package_name, apps) == Len(apps) = 1

\* if app == package_name and len(apps) == 1
SingleAppDefault(app, package_name, apps) ==
    app = package_name /\ Len(apps) = 1

\* _download_and_run, lines 305-329: the app to run, or the error.
ResolveApp(p) ==
    /\ inv[p].pc = "resolve"
    /\ LET entry == cache[inv[p].venv_dir]
           apps == entry.apps
       IN inv' = [inv EXCEPT ![p] =
            IF has_app(entry, inv[p].app)
            THEN [@ EXCEPT !.pc = "mark", !.target = inv[p].app]
            ELSE IF SingleAppDefault(inv[p].app, inv[p].package_name, apps)
            THEN [@ EXCEPT !.pc = "mark", !.apps = apps, !.target = apps[1]]
            ELSE [@ EXCEPT !.pc = "error", !.apps = apps,
                    !.err = [kind |-> "app_not_found", app |-> inv[p].app,
                             package_name |-> inv[p].package_name,
                             app_lines |-> apps]]]
    /\ UNCHANGED <<cache, clock, fp, version_check, runs>>

\* _download_and_run, lines 331-333: the marker of a run without cache;
\* touch() raises when the directory is no longer there.
MarkExpired(p) ==
    /\ inv[p].pc = "mark"
    /\ IF ~inv[p].use_cache /\ ~cache[inv[p].venv_dir].exists
       THEN /\ cache' = cache
            /\ inv' = [inv EXCEPT ![p].pc = "error",
                         ![p].err = [NoError EXCEPT !.kind = "FileNotFoundError"]]
       ELSE /\ cache' = IF ~inv[p].use_cache
                        THEN [cache EXCEPT ![inv[p].venv_dir] = touch_expired(@)]
                        ELSE cache
            /\ inv' = [inv EXCEPT ![p].pc = "exec"]
    /\ UNCHANGED <<clock, fp, version_check, runs>>

\* exec_app([venv.python_path, "-c", content, *app_args]) and
\* venv.run_app(app, app_filename, app_args): the process is replaced, and
\* nothing is launched when the directory is no longer there.
ExecApp(p) ==
    /\ inv[p].pc = "exec"
    /\ inv' = [inv EXCEPT ![p] =
                IF cache[inv[p].venv_dir].exists
                THEN [@ EXCEPT !.pc = "launched", !.from = inv[p].venv_dir]
                ELSE [@ EXCEPT !.pc = "error",
                        !.err = [NoError EXCEPT !.kind = "exec"]]]
    /\ UNCHANGED <<cache, clock, fp, version_check, runs>>

\* The process ends: the launched application exits, or the error is shown.
Exit(p) ==
    /\ inv[p].pc \in {"launched", "error"}
    /\ inv' = [inv EXCEPT ![p] = Idle]
    /\ UNCHANGED <<cache, clock, fp, version_check, runs>>

\* Time passes.
Tick ==
    /\ \E delta \in {1, expiration_threshold} :
        /\ clock + delta \in ClockValues
        /\ clock' = clock + delta
    /\ UNCHANGED <<cache, inv, fp, version_check, runs>>

Step(p) ==
    \/ RunScript(p)
    \/ RunPackage(p)
    \/ PrepareVenvCache(p)
    \/ Lookup(p)
    \/ CreateVenv(p)
    \/ InstallUnmanaged(p)
    \/ InstallPackage(p)
    \/ ResolveApp(p)
    \/ MarkExpired(p)
    \/ ExecApp(p)
    \/ Exit(p)

Next == (\E p \in Procs : Step(p)) \/ Tick

Spec == Init /\ [][Next]_vars

\* ------------------------------------- _get_temporary_venv_path on its own

\* The longest requirement list of a call.
MaxReqs == 2

FpStrings == {"a", "b", "ab"}

RECURSIVE ListsUpTo(_, _)
\* The lists over S of length at most n.
ListsUpTo(S, n) ==
    IF n = 0 THEN {<<>>}
    ELSE ListsUpTo(S, n - 1) \cup
         {Append(l, x) : l \in {m \in ListsUpTo(S, n - 1) : Len(m) = n - 1}, x \in S}

FpCalls ==
    {FpArgs(r, py, pa, va) :
        r \in ListsUpTo(FpStrings, MaxReqs), py \in {"p", "bp"},
        pa \in {<<>>, <<"q">>}, va \in {<<>>, <<"q">>}}

InitFP ==
    /\ cache = [d \in CacheDirs |-> Absent]
    /\ clock = 0
    /\ inv = [p \in Procs |-> Idle]
    /\ fp \in {[NoFp EXCEPT !.a = a, !.b = b] : a \in FpCalls, b \in FpCalls}
    /\ version_check = NoMarker
    /\ runs = NotRunning

\* The two calls are made.
ComputePaths ==
    /\ ~fp.done
    /\ fp' = [fp EXCEPT
                !.path_a = _get_temporary_venv_path(fp.a.requirements, fp.a.python,
                                fp.a.pip_args, fp.a.venv_args),
                !.path_b = _get_temporary_venv_path(fp.b.requirements, fp.b.python,
                                fp.b.pip_args, fp.b.venv_args),
                !.done = TRUE]
    /\ UNCHANGED <<cache, clock, inv, version_check, runs>>

NextFP == ComputePaths

SpecFP == InitFP /\ [][NextFP]_vars

\* ------------------------------------------------------- the targets of run

\* The app argument of run(), as tokens: a project name, a requirement with
\* a version specifier, a file name, and two URLs.  The names of files end
\* with ".py" exactly when their last token is ".py".
TargetName == <<"a">>
TargetRequirement == <<"a", ">=1">>
TargetFile == <<"s", ".py">>
TargetUrlPy == <<"h", ":", "/", "s", ".py">>
TargetUrl == <<"h", ":", "/", "s">>
Targets == {TargetName, TargetRequirement, TargetFile, TargetUrlPy, TargetUrl}

\* The --spec values: none given, or an install source.
SpecOverrides == {None, "a"}

\* The characters a URL scheme is made of.
SchemeTokens == {"h"}

\* urllib.parse.urlparse(app).scheme: the text before the first colon when
\* it is a scheme, and the empty string otherwise.
urlparse_scheme(app) ==
    IF \E i \in 2..Len(app) :
            app[i] = ":" /\ \A j \in 1..(i - 1) : app[j] \in SchemeTokens
    THEN Join(SubSeq(app, 1,
            (CHOOSE i \in 2..Len(app) :
                app[i] = ":" /\ \A j \in 1..(i - 1) : app[j] \in SchemeTokens) - 1))
    ELSE ""

\* app.endswith(".py")
endswith_py(app) == app # <<>> /\ app[Len(app)] = ".py"

\* What maybe_script_content gives: a text, None, or PipxError; with the
\* reads it made (the local file, the URL).
ScriptText(content, read_file, fetched) ==
    [tag |-> "content", content |-> content, read_file |-> read_file,
     fetched |-> fetched, err |-> None]
NotAScript ==
    [tag |-> "none", content |-> <<>>, read_file |-> FALSE, fetched |-> FALSE,
     err |-> None]
ContentError(err, fetched) ==
    [tag |-> "error", content |-> <<>>, read_file |-> FALSE, fetched |-> fetched,
     err |-> err]

\* The answers of urllib.request.urlopen: an exception, or a body.
UrlFailure == [raised |-> TRUE, body |-> <<>>]
UrlResponses == {UrlFailure} \cup {[raised |-> FALSE, body |-> t] : t \in Scripts}

\* _http_get_request(url): the decoded body; any exception is a PipxError.
_http_get_request(response) ==
    IF response.raised
    THEN ContentError("http_get_request", TRUE)
    ELSE ScriptText(response.body, FALSE, TRUE)

\* Mutant: the URL is fetched before its suffix is looked at.
maybe_script_content_fetch_first(app, is_path, path_exists, file_text, response) ==
    IF path_exists THEN ScriptText(file_text, TRUE, FALSE)
    ELSE IF is_path THEN ContentError("path_does_not_exist", FALSE)
    ELSE IF urlparse_scheme(app) # ""
         THEN IF ~endswith_py(app)
              THEN ContentError("url_not_py", TRUE)
              ELSE _http_get_request(response)
    ELSE NotAScript

\* maybe_script_content(app, is_path), with what the file system and the
\* network answer: whether Path(app) exists, its text, the URL's response.
maybe_script_content(app, is_path, path_exists, file_text, response) ==
    IF path_exists THEN ScriptText(file_text, TRUE, FALSE)
    ELSE IF is_path THEN ContentError("path_does_not_exist", FALSE)
    ELSE IF urlparse_scheme(app) # ""
         THEN IF ~endswith_py(app)
              THEN ContentError("url_not_py", FALSE)
              ELSE _http_get_request(response)
    ELSE NotAScript

\* ----------------------------------------------------------- check_version

\* 60 * 60 * 24 seconds, in ticks.
version_check_threshold == 60 * 60 * 24 * TicksPerSec

\* version_check_file.stat(): FileNotFoundError when the file is not there.
stat(marker) ==
    IF marker.exists THEN [raised |-> None, st_ctime |-> marker.ctime]
    ELSE [raised |-> "FileNotFoundError", st_ctime |-> 0]

\* _is_version_check_expired(package_venv): "True", "False", or the
\* exception of stat().
_is_version_check_expired(marker, now) ==
    IF stat(marker).raised # None THEN stat(marker).raised
    ELSE IF current_time(now) - stat(marker).st_ctime > version_check_threshold
         THEN "True"
    ELSE "False"

\* Line 222: (package_venv / "pipx_version_check").exists()
\*           or _is_version_check_expired(package_venv)
VersionCheckCondition(marker, now) ==
    IF marker.exists THEN "True" ELSE _is_version_check_expired(marker, now)

\* What the marker looks like to a check made at time now.
MarkerAge(marker, now) ==
    IF ~marker.exists THEN "absent"
    ELSE IF now - marker.ctime > version_check_threshold THEN "old"
    ELSE "young"

\* The answers of requests.get(pypi_url): an exception, an empty page, a
\* page without the version element, a page that names a version.
OracleAnswers == {"RequestException", "no_content", "no_element", "1", "2"}

\* _get_latest_version(package_name): None after a RequestException; the
\* other paths print and fall off the end of the function, which has no
\* return statement.
_get_latest_version(answer) ==
    IF answer = "RequestException" THEN None
    ELSE IF answer = "no_content" THEN None
    ELSE IF answer = "no_element" THEN None
    ELSE None

\* What Venv(package_venv).package_metadata holds for app: no entry, or the
\* installed version.
InstalledVersions == {None, "1", "2"}

\* packaging.version.parse: a version, or TypeError for None.
version_parse(v) ==
    IF v = "1" THEN [raised |-> None, release |-> 1]
    ELSE IF v = "2" THEN [raised |-> None, release |-> 2]
    ELSE [raised |-> "TypeError", release |-> 0]

\* check_version, lines 229-233: the exception raised, or whether the
\* upgrade is run.
CompareVersions(latest_version, current_version) ==
    IF current_version = None
    THEN [raised |-> "KeyError", upgrade |-> FALSE]
    ELSE IF version_parse(latest_version).raised # None
    THEN [raised |-> version_parse(latest_version).raised, upgrade |-> FALSE]
    ELSE [raised |-> None,
          upgrade |-> version_parse(latest_version).release
                        > version_parse(current_version).release]

\* --------------------------------------------------------------------- run

\* Requirement(app).name, and app itself after InvalidRequirement.
RequirementName(app) ==
    IF ValidRequirement(app) THEN NonBlank(app)[1] ELSE Join(app)

\* run(), lines 197-212: the function that is called, and with what.
Dispatch(call, found) ==
    IF found.tag = "error"
    THEN [call EXCEPT !.pc = "error", !.err = found.err, !.fetched = found.fetched]
    ELSE IF found.tag = "content"
    THEN [call EXCEPT !.pc = "run_script", !.content = found.content,
            !.read_file = found.read_file, !.fetched = found.fetched]
    ELSE [call EXCEPT !.pc = "run_package",
            !.package_name = RequirementName(call.app),
            !.package_or_url =
                IF call.spec # None THEN call.spec ELSE Join(call.app)]

\* run() is called; check_version evaluates the condition of line 222.
CheckVersion ==
    /\ runs.pc = "idle"
    /\ \E app \in Targets, spec \in SpecOverrides, is_path \in BOOLEAN :
        LET call == [NotRunning EXCEPT !.op = "run", !.app = app, !.spec = spec,
                        !.is_path = is_path,
                        !.seen = MarkerAge(version_check, clock)]
            due == VersionCheckCondition(version_check, clock)
        IN  runs' = IF due = "True" THEN [call EXCEPT !.pc = "marker"]
                    ELSE IF due = "False" THEN [call EXCEPT !.pc = "classify"]
                    ELSE [call EXCEPT !.pc = "error", !.err = due]
    /\ UNCHANGED <<cache, clock, inv, fp, version_check>>

\* with open(package_venv / "pipx_version_check", "w"): pass
WriteMarker ==
    /\ runs.pc = "marker"
    /\ version_check' = [exists |-> TRUE, ctime |-> clock]
    /\ runs' = [runs EXCEPT !.pc = "query"]
    /\ UNCHANGED <<cache, clock, inv, fp>>

\* latest_version = _get_latest_version(app)
GetLatestVersion ==
    /\ runs.pc = "query"
    /\ \E answer \in OracleAnswers :
        runs' = [runs EXCEPT !.pc = "compare", !.queried = TRUE,
                    !.latest_version = _get_latest_version(answer)]
    /\ UNCHANGED <<cache, clock, inv, fp, version_check>>

\* check_version, lines 229-233, and, when it returns, run(), lines 190-212.
CompareAndDispatch ==
    /\ runs.pc \in {"compare", "classify"}
    /\ \E current_version \in InstalledVersions, path_exists \in BOOLEAN,
          file_text \in Scripts, response \in UrlResponses :
        LET compared == IF runs.pc = "compare"
                        THEN CompareVersions(runs.latest_version, current_version)
                        ELSE [raised |-> None, upgrade |-> FALSE]
            call == [runs EXCEPT !.upgraded = compared.upgrade]
        IN  runs' =
                IF compared.raised # None
                THEN [runs EXCEPT !.pc = "error", !.err = compared.raised]
                ELSE IF call.spec # None THEN Dispatch(call, NotAScript)
                ELSE Dispatch(call,
                        maybe_script_content(call.app, call.is_path, path_exists,
                                             file_text, response))
    /\ UNCHANGED <<cache, clock, inv, fp, version_check>>

\* The call of run() is over: with an exception, or in run_script or
\* run_package, whose steps are those of Spec.
RunEnds ==
    /\ runs.op = "run"
    /\ runs.pc \in {"error", "run_script", "run_package"}
    /\ runs' = NotRunning
    /\ UNCHANGED <<cache, clock, inv, fp, version_check>>

\* The clock of the version check: up to MaxSkew ticks after time 0, and up
\* to MaxSkew ticks after 24 hours have passed.
VersionClockValues ==
    (0..MaxSkew) \cup (version_check_threshold..(version_check_threshold + MaxSkew))

\* Time passes.
TickRun ==
    /\ \E delta \in {1, version_check_threshold} :
        /\ clock + delta \in VersionClockValues
        /\ clock' = clock + delta
    /\ UNCHANGED <<cache, inv, fp, version_check, runs>>

\* The marker file is there or not when the first run() starts: other
\* commands and the user write under PIPX_LOCAL_VENVS.
InitRun ==
    /\ cache = [d \in CacheDirs |-> Absent]
    /\ clock \in 0..(TicksPerSec - 1)
    /\ inv = [p \in Procs |-> Idle]
    /\ fp = NoFp
    /\ version_check \in {NoMarker, [exists |-> TRUE, ctime |-> 0]}
    /\ runs = NotRunning

NextRun ==
    \/ CheckVersion
    \/ WriteMarker
    \/ GetLatestVersion
    \/ CompareAndDispatch
    \/ RunEnds
    \/ TickRun

SpecRun == InitRun /\ [][NextRun]_vars

\* --------------------------------- maybe_script_content and run_script alone

\* The longest script text, in lines.
MaxLines == 3

\* The lines script texts are made of: code, an empty comment, a header, two
\* requirement lines, a comment that is no requirement, and a header that
\* does not start the line.
ScriptLines ==
    { <<"x">>, <<"#">>, <<"#", " ", "Requirements:">>, <<"#", "a">>,
      <<"#", " ", "a", " ", ">=1", " ">>, <<"#", "a", "b">>,
      <<" ", "#", "Requirements:">> }

ScriptTexts == ListsUpTo(ScriptLines, MaxLines)

\* What the file system and the network answer to maybe_script_content:
\* the path exists and holds a text, or it does not and the URL, if one is
\* fetched, gives a text or fails.
ContentSources ==
    {[path_exists |-> TRUE, file_text |-> t, response |-> UrlFailure] :
        t \in ScriptTexts}
    \cup
    {[path_exists |-> FALSE, file_text |-> <<>>, response |-> r] :
        r \in {UrlFailure} \cup {[raised |-> FALSE, body |-> t] : t \in ScriptTexts}}

\* maybe_script_content(app, is_path) is called.
MaybeScriptContent ==
    /\ runs.pc = "idle"
    /\ \E app \in Targets, is_path \in BOOLEAN, source \in ContentSources :
        LET call == [NotRunning EXCEPT !.op = "maybe_script_content",
                        !.app = app, !.is_path = is_path,
                        !.path_exists = source.path_exists]
            found == maybe_script_content(app, is_path, source.path_exists,
                                          source.file_text, source.response)
        IN  runs' =
                IF found.tag = "error"
                THEN [call EXCEPT !.pc = "error", !.err = found.err,
                        !.fetched = found.fetched]
                ELSE IF found.tag = "none"
                THEN [call EXCEPT !.pc = "not_a_script"]
                ELSE [call EXCEPT !.pc = "content", !.content = found.content,
                        !.read_file = found.read_file, !.fetched = found.fetched]
    /\ UNCHANGED <<cache, clock, inv, fp, version_check>>

\* run_script(content, ...), lines 80-92, on the text that was found: the
\* error of the extractor, the launch with the ambient interpreter, or the
\* directory that _prepare_venv_cache is then called with.
RunScriptContent ==
    /\ runs.pc = "content"
    /\ \E app_args \in AppArgs, python \in Pythons, pip_args \in PipArgs,
          venv_args \in VenvArgs :
        LET requirements == _get_requirements_from_script(runs.content)
        IN  runs' =
                IF requirements.tag = "error"
                THEN [runs EXCEPT !.pc = "error", !.err = "invalid_requirement"]
                ELSE IF RunsAmbient(requirements)
                THEN [runs EXCEPT !.pc = "exec_app", !.venv_dir = Ambient]
                ELSE [runs EXCEPT !.pc = "prepare",
                        !.requirements = requirements.reqs,
                        !.venv_dir = run_script_venv_dir(runs.content, app_args,
                                        python, pip_args, venv_args)]
    /\ UNCHANGED <<cache, clock, inv, fp, version_check>>

\* The call is over, or goes on with the steps of Spec.
ContentEnds ==
    /\ runs.op = "maybe_script_content"
    /\ runs.pc \in {"error", "not_a_script", "exec_app", "prepare"}
    /\ runs' = NotRunning
    /\ UNCHANGED <<cache, clock, inv, fp, version_check>>

NextContent ==
    \/ MaybeScriptContent
    \/ RunScriptContent
    \/ ContentEnds

SpecContent == Init /\ [][NextContent]_vars

\* ------------------------------------------- invocations that run together

\* The processes of the invocations that share the cache directory.
ConcProcs == {1, 2}

\* The steps of one invocation among several: a script run of ScriptA or a
\* package run of "a" for the app "a", without arguments and without a
\* project-local binary, and a provisioner that installs the app unless the
\* directory is no longer there.
ConcStep(p) ==
    \/ /\ RunScript(p)
       /\ inv'[p].pc = "prepare" /\ inv'[p].content = ScriptA
       /\ inv'[p].app_args = <<>>
    \/ /\ RunPackage(p)
       /\ inv'[p].pc = "prepare" /\ inv'[p].app = "a" /\ inv'[p].app_args = <<>>
    \/ PrepareVenvCache(p)
    \/ Lookup(p)
    \/ CreateVenv(p)
    \/ /\ InstallUnmanaged(p)
       /\ inv'[p].pc = "exec" \/ ~cache[inv[p].venv_dir].exists
    \/ /\ InstallPackage(p)
       /\ \/ inv'[p].pc = "resolve" /\ cache'[inv[p].venv_dir].apps = <<"a">>
          \/ ~cache[inv[p].venv_dir].exists
    \/ ResolveApp(p)
    \/ MarkExpired(p)
    \/ ExecApp(p)
    \/ Exit(p)

InitConc ==
    /\ cache = [d \in CacheDirs |-> Absent]
    /\ clock = 0
    /\ inv = [p \in ConcProcs |-> Idle]
    /\ fp = NoFp
    /\ version_check = NoMarker
    /\ runs = NotRunning

NextConc == \E p \in ConcProcs : ConcStep(p)

SpecConc == InitConc /\ [][NextConc]_vars

\* ----------------------------------------------------------------- claims

\* The invocation of p launched its target from its cache directory.
LaunchedFromCache(p) ==
    inv[p].pc = "launched" /\ inv[p].from = inv[p].venv_dir

\* The invocation of p called the provisioner.
Provisioned(p) == inv[p].calls # <<>>

\* A step of p's _prepare_venv_cache.
PrepareStep(p) == inv[p].pc = "prepare" /\ inv'[p].pc = "lookup"

\* C1: an invocation whose own entry is EXPIRED (marker present, or age
\* above the threshold) when its sweep runs never launches the application
\* from that entry without provisioning it again first.
C1_ExpiredEntryNotReused ==
    \A p \in Procs :
        (LaunchedFromCache(p) /\ inv[p].pre = "expired") => Provisioned(p)

\* C2: with caching enabled, an invocation whose fingerprint directory is
\* READY when it prepares the cache calls no provisioner operation and goes
\* on to launch from that directory, on the script and on the package path.
C2_ReadyEntryReusedWithoutProvisioner ==
    \A p \in Procs :
        (inv[p].use_cache /\ inv[p].pre = "ready") =>
            /\ ~Provisioned(p)
            /\ inv[p].pc \in {"lookup", "exec", "launched"}
            /\ inv[p].pc = "launched" => inv[p].from = inv[p].venv_dir

\* C3: when an invocation with caching disabled that built a fresh
\* environment launches the application, its fingerprint directory exists
\* and holds the expiration marker, on the script and on the package path.
C3_NoCacheBuildIsMarkedAtLaunch ==
    \A p \in Procs :
        (LaunchedFromCache(p) /\ ~inv[p].use_cache /\ Provisioned(p)) =>
            /\ cache[inv[p].venv_dir].exists
            /\ cache[inv[p].venv_dir].expired_file

\* C4: an entry is removed only by the sweep of some invocation and only
\* if it is EXPIRED then; the sweep leaves every entry that is not expired
\* unchanged; between invocations the cache does not change.
C4_RemovedOnlyBySweepOfExpired ==
    [][\A d \in CacheDirs :
        /\ (cache[d].exists /\ ~cache'[d].exists) =>
                /\ \E p \in Procs : PrepareStep(p)
                /\ LifecycleState(cache[d], clock) = "expired"
        /\ ((\E p \in Procs : PrepareStep(p))
                /\ LifecycleState(cache[d], clock) # "expired") =>
                cache'[d] = cache[d]
        /\ (\A p \in Procs : inv[p].pc = "idle" /\ inv'[p].pc = "idle") =>
                cache'[d] = cache[d]
      ]_vars

\* The entry of d is the one p's _prepare_venv_cache removes up front: its
\* own fingerprint directory, caching disabled, and no binary path given
\* (script) or the binary present (package).
TargetedBy(p, d) ==
    /\ d = inv[p].venv_dir
    /\ ~inv[p].use_cache
    /\ inv[p].kind = "script" \/ bin_path_exists(cache[d], inv[p].app)

\* C4 (amended): an entry is removed only inside some invocation's
\* _prepare_venv_cache, by the sweep if it is EXPIRED then, or by the
\* targeted removal of that invocation's own directory when caching is
\* disabled; _prepare_venv_cache leaves every other entry unchanged; between
\* invocations the cache does not change.
C4_RemovedOnlyByPrepare ==
    [][\A d \in CacheDirs :
        /\ (cache[d].exists /\ ~cache'[d].exists) =>
                \E p \in Procs :
                    /\ PrepareStep(p)
                    /\ \/ LifecycleState(cache[d], clock) = "expired"
                       \/ TargetedBy(p, d)
        /\ \A p \in Procs :
                (PrepareStep(p) /\ LifecycleState(cache[d], clock) # "expired"
                    /\ ~TargetedBy(p, d)) => cache'[d] = cache[d]
        /\ (\A p \in Procs : inv[p].pc = "idle" /\ inv'[p].pc = "idle") =>
                cache'[d] = cache[d]
      ]_vars

\* Witness of C4: a READY entry has just been removed by the targeted
\* removal of a run without cache, while another READY entry was kept.
C4_Witness ==
    \E p \in Procs, d \in CacheDirs :
        /\ inv[p].pc = "lookup" /\ inv[p].pre = "ready" /\ ~inv[p].use_cache
        /\ ~cache[inv[p].venv_dir].exists
        /\ d # inv[p].venv_dir /\ LifecycleState(cache[d], clock) = "ready"

\* The run that made the entry of d had the inputs of p's run, up to the
\* arguments for the application.
SameInputsButAppArgs(d, p) ==
    cache[d].by = CallOf(inv[p].kind, inv[p].content, inv[p].package_or_url,
                         cache[d].by.app_args, inv[p].python, inv[p].pip_args,
                         inv[p].venv_args)

\* C5: the directory of a run is fixed by (requirements, python, pip_args,
\* venv_args): no other arguments for the application would give the run
\* another directory, and a directory made by an earlier run of the same
\* target with the same four inputs is the directory of this run, whatever
\* the application arguments of the two runs; with caching enabled and the
\* entry READY the script run launches from it without provisioning.
C5_DirectoryIgnoresAppArgs ==
    \A p \in Procs :
        inv[p].venv_dir # None =>
            /\ \A aa \in AppArgs :
                    inv[p].venv_dir =
                        IF inv[p].kind = "script"
                        THEN run_script_venv_dir(inv[p].content, aa, inv[p].python,
                                inv[p].pip_args, inv[p].venv_args)
                        ELSE run_package_venv_dir(inv[p].package_or_url, aa,
                                inv[p].python, inv[p].pip_args, inv[p].venv_args)
            /\ \A d \in CacheDirs :
                    (cache[d].exists /\ SameInputsButAppArgs(d, p)) =>
                        d = inv[p].venv_dir
            /\ (inv[p].kind = "script" /\ inv[p].use_cache /\ inv[p].pre = "ready") =>
                    ~Provisioned(p) /\ inv[p].pc \in {"lookup", "exec", "launched"}

\* Witness of C5: a run launched from the directory that a run of the same
\* target with other application arguments had made.
C5_Witness ==
    \E p \in Procs :
        /\ LaunchedFromCache(p) /\ inv[p].reused /\ inv[p].use_cache
        /\ SameInputsButAppArgs(inv[p].venv_dir, p)
        /\ cache[inv[p].venv_dir].by.app_args # inv[p].app_args

\* The text fed to the digest: every string of the call, one after the other.
FedText(args) ==
    Join(args.requirements \o <<args.python>> \o args.pip_args \o args.venv_args)

\* C6: two calls of _get_temporary_venv_path whose tuples differ in any
\* component give different directories.
C6_DifferentTuplesDifferentDirs ==
    (fp.done /\ fp.a # fp.b) => fp.path_a # fp.path_b

\* C6 (amended): two calls give the same directory exactly when the
\* strings of their tuples, written one after the other, are the same text;
\* tuples that only split the same characters differently share a directory.
C6_SameDirIffSameText ==
    fp.done => ((fp.path_a = fp.path_b) <=> (FedText(fp.a) = FedText(fp.b)))

\* Witness of C6: two different tuples, one splitting between the
\* requirement list and the interpreter what the other keeps in the list,
\* and both with the same directory.
C6_Witness ==
    /\ fp.done /\ fp.a # fp.b /\ fp.path_a = fp.path_b
    /\ fp.a.requirements # fp.b.requirements /\ fp.a.python # fp.b.python

\* The header written from the requirements extracted from content: the
\* header line, then one comment line for each normalised requirement.
Reserialised(content) ==
    LET h == HeaderIndex(content)
        n == Len(_get_requirements_from_script(content).reqs)
    IN  << <<"#", " ", "Requirements:">> >> \o
        [i \in 1..n |-> <<"#", " ">> \o NonBlank(LineContent(content[h + i]))]

\* C7: the directory of a script run depends on the script through its
\* normalised requirement list only: a directory made by a run of a script
\* with the same extracted list and the same python, pip_args and venv_args
\* is the directory of this run, which (caching enabled, entry READY) is
\* launched from it without provisioning; and extracting from the header
\* written from an extracted list gives that list again.
C7_ScriptsShareByRequirements ==
    \A p \in Procs :
        (inv[p].kind = "script" /\ inv[p].venv_dir # None) =>
            /\ \A d \in CacheDirs :
                    (/\ cache[d].exists
                     /\ cache[d].by.kind = "script"
                     /\ _get_requirements_from_script(cache[d].by.content).reqs
                            = inv[p].requirements
                     /\ cache[d].by.python = inv[p].python
                     /\ cache[d].by.pip_args = inv[p].pip_args
                     /\ cache[d].by.venv_args = inv[p].venv_args) =>
                        d = inv[p].venv_dir
            /\ (inv[p].use_cache /\ inv[p].pre = "ready") =>
                    ~Provisioned(p) /\ inv[p].pc \in {"lookup", "exec", "launched"}
            /\ _get_requirements_from_script(Reserialised(inv[p].content))
                    = _get_requirements_from_script(inv[p].content)

\* Witness of C7: a script was launched from the directory made by a run
\* of a script with another text.
C7_Witness ==
    \E p \in Procs :
        /\ inv[p].kind = "script" /\ LaunchedFromCache(p) /\ inv[p].reused
        /\ inv[p].use_cache /\ inv[p].pre = "ready"
        /\ cache[inv[p].venv_dir].by.kind = "script"
        /\ cache[inv[p].venv_dir].by.content # inv[p].content

\* C8: without the marker file _is_temporary_venv_expired is false at an
\* age (clock minus creation time) equal to the threshold and true at every
\* greater age, down to one tick; with the marker file it is true.
C8_ExpirationBoundary ==
    \A d \in CacheDirs :
        cache[d].exists =>
            LET age == clock - cache[d].ctime
                expired == _is_temporary_venv_expired(cache[d], clock)
            IN  /\ (~cache[d].expired_file /\ age = expiration_threshold) => ~expired
                /\ (~cache[d].expired_file /\ age > expiration_threshold) => expired
                /\ cache[d].expired_file => expired

\* The content has no comment line whose stripped content is "Requirements:".
NoHeaderLine(content) == \A i \in 1..Len(content) : ~IsHeaderLine(content[i])

\* C9: a run of a script without a "Requirements:" header line launches
\* the content with the ambient interpreter at once, and no step of it
\* changes the cache: no sweep, no entry made, none removed.
C9_NoHeaderLeavesCacheAlone ==
    [][\A p \in Procs :
        /\ (inv[p].pc = "idle" /\ inv'[p].kind = "script"
                /\ NoHeaderLine(inv'[p].content)) =>
                /\ inv'[p].pc = "launched"
                /\ inv'[p].from = Ambient
                /\ inv'[p].venv_dir = None
                /\ cache' = cache
        /\ (inv[p].kind = "script" /\ NoHeaderLine(inv[p].content)
                /\ inv'[p] # inv[p]) =>
                /\ inv'[p] = Idle
                /\ cache' = cache
      ]_vars

\* Witness of C9: a script without header was launched with the ambient
\* interpreter, caching disabled, while the cache holds an expired entry.
C9_Witness ==
    \E p \in Procs, d \in CacheDirs :
        /\ inv[p].kind = "script" /\ NoHeaderLine(inv[p].content)
        /\ inv[p].pc = "launched" /\ inv[p].from = Ambient
        /\ ~inv[p].use_cache
        /\ cache[d].exists /\ _is_temporary_venv_expired(cache[d], clock)

\* app is among the apps the installed package declares.
Declares(apps, app) == \E i \in 1..Len(apps) : apps[i] = app

\* C10: in _download_and_run, once the package is installed and the
\* requested binary is absent: with the requested name equal to the package
\* name and exactly one declared app, that app is the target and is what is
\* launched; otherwise the invocation ends in the error that names the
\* requested app and lists every declared app, and launches nothing.
C10_AppResolution ==
    \A p \in Procs :
        LET i == inv[p]
            apps == cache[i.venv_dir].apps
        IN  (/\ i.kind = "package"
             /\ i.calls = <<"create_venv", "install_package">>
             /\ i.pc \in {"mark", "exec", "launched", "error"}
             /\ i.err.kind # "provisioning"
             /\ ~Declares(apps, i.app)) =>
                IF i.app = i.package_name /\ Len(apps) = 1
                THEN /\ i.pc # "error"
                     /\ i.target = apps[1]
                     /\ i.pc = "launched" => i.from = i.venv_dir
                ELSE /\ i.pc = "error"
                     /\ i.from = None
                     /\ i.err = [kind |-> "app_not_found", app |-> i.app,
                                 package_name |-> i.package_name,
                                 app_lines |-> apps]

\* Witness of C10: the single app of the package was substituted for the
\* requested name and launched.
C10_Witness ==
    \E p \in Procs :
        /\ inv[p].kind = "package" /\ inv[p].pc = "launched"
        /\ inv[p].calls = <<"create_venv", "install_package">>
        /\ inv[p].target # inv[p].app
        /\ inv[p].app = inv[p].package_name
        /\ cache[inv[p].venv_dir].apps = <<inv[p].target>>

\* The exceptions that only check_version raises.
VersionCheckExceptions == {"FileNotFoundError", "KeyError", "TypeError"}

\* C11: the version check never ends a call of run(): no call of run() is
\* over with an exception that check_version raised.
C11_VersionCheckNeverFatal ==
    ~(runs.op = "run" /\ runs.pc = "error" /\ runs.err \in VersionCheckExceptions)

\* The check_version of the call of run() under way has been left.
VersionCheckOver ==
    runs.op = "run" /\ runs.pc \in {"compare", "error", "run_script", "run_package"}

\* C12: a call of run() has queried the version oracle by the end of its
\* check_version if and only if, when the check started, the marker file
\* was absent or older than 24 hours; a marker younger than 24 hours
\* suppresses the query.
C12_QueryIffMarkerDue ==
    VersionCheckOver => (runs.queried <=> runs.seen \in {"absent", "old"})

\* The errors of the user's input.
UserInputErrors == {"path_does_not_exist", "url_not_py", "invalid_requirement"}

\* Line i of content is a comment line with something after the marker.
RequirementLine(content, i) ==
    /\ i \in 1..Len(content)
    /\ StartsWithHash(content[i])
    /\ LineContent(content[i]) # <<>>

\* The first header line of a content that has one.
FirstHeaderLine(content) ==
    CHOOSE h \in 1..Len(content) :
        IsHeaderLine(content[h]) /\ \A j \in 1..(h - 1) : ~IsHeaderLine(content[j])

\* The number of lines in the block under the first header line: the lines
\* up to the first one that is no comment or is an empty comment.
BlockLength(content) ==
    LET h == FirstHeaderLine(content) IN
    CHOOSE n \in 0..(Len(content) - h) :
        /\ \A k \in 1..n : RequirementLine(content, h + k)
        /\ ~RequirementLine(content, h + n + 1)

\* Every line of the block is a requirement.
BlockWellFormed(content) ==
    \A k \in 1..BlockLength(content) :
        ValidRequirement(LineContent(content[FirstHeaderLine(content) + k]))

\* The normalised lines of the block, in the order of the source.
BlockRequirements(content) ==
    [k \in 1..BlockLength(content) |->
        NormalisedRequirement(LineContent(content[FirstHeaderLine(content) + k]))]

\* The text found by maybe_script_content has been through run_script's
\* call of the extractor.
Extracted ==
    /\ runs.op = "maybe_script_content"
    /\ \/ runs.pc \in {"exec_app", "prepare"}
       \/ runs.pc = "error" /\ runs.err = "invalid_requirement"

\* C13: each error of the user's input ends the call with an error and
\* before anything is done to the cache.  A mandated path that does not
\* exist, and a URL (no such local path) that does not end in ".py", end
\* maybe_script_content with their error, and nothing was fetched; a text
\* whose requirement block has a malformed line ends run_script with the
\* error of the extractor; and a call that ended with any of the three has
\* computed no directory and has left the cache and the steps of
\* _prepare_venv_cache, provisioning and launch untouched.
C13_UserInputErrorsComeFirst ==
    runs.op = "maybe_script_content" =>
        /\ (runs.is_path /\ ~runs.path_exists) =>
                runs.pc = "error" /\ runs.err = "path_does_not_exist"
        /\ (~runs.is_path /\ ~runs.path_exists /\ urlparse_scheme(runs.app) # ""
                /\ ~endswith_py(runs.app)) =>
                runs.pc = "error" /\ runs.err = "url_not_py"
        /\ (Extracted /\ ~NoHeaderLine(runs.content)
                /\ ~BlockWellFormed(runs.content)) =>
                runs.pc = "error" /\ runs.err = "invalid_requirement"
        /\ (runs.pc = "error" /\ runs.err \in {"path_does_not_exist", "url_not_py"}) =>
                ~runs.fetched /\ ~runs.read_file
        /\ (runs.pc = "error" /\ runs.err \in UserInputErrors) =>
                /\ runs.venv_dir = None
                /\ cache = [d \in CacheDirs |-> Absent]
                /\ inv = [p \in Procs |-> Idle]

\* Witness of C13: a URL that does not end in ".py" was refused.
C13_Witness ==
    /\ runs.pc = "error" /\ runs.err = "url_not_py"
    /\ runs.app = TargetUrl /\ ~runs.fetched

\* C14: the extractor gives None exactly when the text has no header line;
\* otherwise, when it returns, it gives the normalised lines of the block
\* under the first header line, in order, up to the first line that is no
\* comment or an empty comment, and it returns whenever every line of the
\* block is a requirement; with a list, also the empty one, run_script
\* takes the isolated path, with the directory named by the fingerprint of
\* that list.
C14_ExtractionAndRouting ==
    Extracted =>
        /\ runs.pc = "exec_app" <=> NoHeaderLine(runs.content)
        /\ runs.pc = "prepare" =>
            /\ runs.requirements = BlockRequirements(runs.content)
            /\ runs.venv_dir \in
                {_get_temporary_venv_path(BlockRequirements(runs.content),
                                          python, pip_args, venv_args) :
                    python \in Pythons, pip_args \in PipArgs, venv_args \in VenvArgs}
        /\ (~NoHeaderLine(runs.content) /\ BlockWellFormed(runs.content)) =>
                runs.pc = "prepare"

\* Witness of C14: a header line with no requirement line under it, but
\* with an empty comment and code, gave the empty list and the isolated path.
C14_Witness ==
    /\ runs.pc = "prepare"
    /\ runs.requirements = <<>>
    /\ Len(runs.content) = 3
    /\ IsHeaderLine(runs.content[1])
    /\ runs.venv_dir = _get_temporary_venv_path(<<>>, "py", <<>>, <<>>)

\* The call of run() under way is over.
RunOver ==
    runs.op = "run" /\ runs.pc \in {"error", "run_script", "run_package"}

\* C15: run() settles what to execute in a fixed order.  With a spec
\* override it reads no local file, fetches no URL and calls run_package
\* with the override as the install source and the name parsed from the
\* target as the app.  Without one it calls run_script with the text of the
\* local file, or else with the text fetched from a URL that ends in ".py",
\* or else calls run_package with the target as both the app and the
\* install source; or it ends with an error of the user's input or of the
\* fetch.
C15_DecisionOrder ==
    RunOver =>
        /\ runs.spec # None =>
            /\ runs.pc = "run_package"
            /\ runs.package_or_url = runs.spec
            /\ runs.package_name = RequirementName(runs.app)
            /\ ~runs.read_file /\ ~runs.fetched
        /\ runs.spec = None =>
            \/ runs.pc = "run_script" /\ runs.read_file /\ ~runs.fetched
            \/ /\ runs.pc = "run_script" /\ runs.fetched /\ ~runs.read_file
               /\ urlparse_scheme(runs.app) # "" /\ endswith_py(runs.app)
            \/ /\ runs.pc = "run_package"
               /\ urlparse_scheme(runs.app) = ""
               /\ runs.package_or_url = Join(runs.app)
               /\ runs.package_name = Join(runs.app)
               /\ ~runs.read_file /\ ~runs.fetched
            \/ /\ runs.pc = "error"
               /\ runs.err \in {"path_does_not_exist", "url_not_py", "http_get_request"}

\* The invocation of p has done nothing with the cache: no directory
\* computed, no _prepare_venv_cache, no provisioning, no reuse.
BypassedCache(p) ==
    /\ inv[p].venv_dir = None
    /\ inv[p].pre = None
    /\ inv[p].calls = <<>>
    /\ ~inv[p].reused

\* C16: a package run whose project-local __pypackages__ binary exists
\* launches it, and one whose binary does not exist while the flag was
\* passed ends in the error; neither computes a directory, sweeps, removes,
\* provisions or reuses, and no step of either changes the cache.  A run
\* without the binary and without the flag goes on to the cache: its first
\* step leaves it before _prepare_venv_cache with the fingerprint of
\* [package_or_url] as its directory.
C16_PypackagesBypassesCache ==
    [][\A p \in Procs :
        (inv'[p] # inv[p] /\ inv'[p].kind = "package") =>
            /\ inv'[p].pypackage_bin =>
                /\ inv'[p].pc = "launched" /\ inv'[p].from = "__pypackages__"
                /\ BypassedCache(p)'
                /\ cache' = cache
            /\ (~inv'[p].pypackage_bin /\ inv'[p].pypackages) =>
                /\ inv'[p].pc = "error"
                /\ inv'[p].err.kind = "pypackages_not_found"
                /\ BypassedCache(p)'
                /\ cache' = cache
            /\ (~inv'[p].pypackage_bin /\ ~inv'[p].pypackages) =>
                /\ inv'[p].venv_dir =
                        _get_temporary_venv_path(<<inv'[p].package_or_url>>,
                            inv'[p].python, inv'[p].pip_args, inv'[p].venv_args)
                /\ inv[p].pc = "idle" => inv'[p].pc = "prepare" /\ cache' = cache
                /\ inv'[p].from \in {None, inv'[p].venv_dir}
      ]_vars

\* Witness of C16: the project-local binary was launched, without the
\* flag, while the cache holds a READY entry of the same target.
C16_Witness ==
    \E p \in Procs :
        /\ inv[p].kind = "package" /\ inv[p].pc = "launched"
        /\ inv[p].pypackage_bin /\ ~inv[p].pypackages
        /\ inv[p].from = "__pypackages__"
        /\ LifecycleState(cache[run_package_venv_dir(inv[p].package_or_url,
                inv[p].app_args, inv[p].python, inv[p].pip_args,
                inv[p].venv_args)], clock) = "ready"

\* The invocation of p is between its create_venv and its launch, or has
\* launched its application from its directory, which is still running.
InUse(p) ==
    inv[p].pc \in {"install", "resolve", "mark", "exec"} \/ LaunchedFromCache(p)

\* C17: with invocations that share the cache and interleave their steps,
\* the directory an invocation is provisioning or has launched from exists
\* as long as the invocation uses it: no other invocation removes it.
C17_InUseNeverRemoved ==
    \A p \in DOMAIN inv : InUse(p) => cache[inv[p].venv_dir].exists

\* The invocation of q has found its directory not reusable and is between
\* its create_venv and its install step.
Building(q) ==
    inv[q].pc = "install" /\ ~inv[q].reused /\ inv[q].calls = <<"create_venv">>

\* C18: nothing keeps two invocations from building the same directory.
\* The lookup of an invocation goes on to create_venv whenever its
\* directory is not reusable, also while another invocation is building
\* that directory; and _prepare_venv_cache removes a directory that is
\* expired or is the target of its removal, also while another invocation
\* is between create_venv and install on it.
C18_NoMutualExclusion ==
    [][\A p \in DOMAIN inv : \A q \in DOMAIN inv \ {p} :
        /\ (inv[p].pc = "lookup" /\ inv'[p].pc # "lookup"
                /\ inv[q].venv_dir = inv[p].venv_dir
                /\ inv[q].pc \in {"create", "install"}
                /\ ~Reusable(inv[p].kind, cache[inv[p].venv_dir], inv[p].app)) =>
                inv'[p].pc = "create" /\ inv'[q] = inv[q]
        /\ (PrepareStep(p) /\ Building(q) /\ cache[inv[q].venv_dir].exists
                /\ \/ _is_temporary_venv_expired(cache[inv[q].venv_dir], clock)
                   \/ TargetedBy(p, inv[q].venv_dir)) =>
                ~cache'[inv[q].venv_dir].exists /\ inv'[q] = inv[q]
      ]_vars

\* Witness of C18: two invocations with the same directory; the first saw
\* it absent and has called create_venv, the targeted removal of the second
\* has removed it before the first's install step, and the second has seen
\* it absent at its lookup and is at its own create_venv.
C18_Witness ==
    \E p \in DOMAIN inv : \E q \in DOMAIN inv \ {p} :
        /\ inv[q].venv_dir = inv[p].venv_dir
        /\ Building(q) /\ inv[q].pre = "absent"
        /\ inv[p].pc = "create" /\ inv[p].pre = "ready" /\ ~inv[p].use_cache
        /\ ~cache[inv[p].venv_dir].exists

\* C19: a script run launches from a directory it reused only if the
\* provisioning of that directory was completed: create_venv and
\* install_unmanaged_packages were both done on it.
C19_ReusedScriptDirIsProvisioned ==
    \A p \in DOMAIN inv :
        (inv[p].kind = "script" /\ LaunchedFromCache(p) /\ inv[p].reused) =>
            cache[inv[p].venv_dir].installed

\* C20: a package run without cache that ends in an error after its
\* provisioning started leaves no READY entry for its fingerprint: the
\* directory is absent or holds the expiration marker.
C20_FailedNoCacheRunLeavesNoReadyEntry ==
    \A p \in DOMAIN inv :
        (inv[p].kind = "package" /\ ~inv[p].use_cache /\ inv[p].pc = "error"
            /\ Provisioned(p)) =>
            LifecycleState(cache[inv[p].venv_dir], clock) # "ready"

====
